---- MODULE Spec2Model ----
(***************************************************************************)
(* Model of app.py, the Streamlit page of the Bengaluru house price        *)
(* predictor.  One process serves the page; every user interaction makes   *)
(* the runtime execute main() once from top to bottom (a "pass").  The     *)
(* state is the process-wide memo of load_model_and_data() (st.cache_data),*)
(* the widget values of the session being served, and a record of what     *)
(* the last pass of main() did.                                            *)
(*                                                                         *)
(* Python values: an optional value (x or None) is a sequence of length    *)
(* at most one, None == <<>>.  A float is a fixed-point integer counting   *)
(* thousandths; an int is an integer.  A string formatted with ":.2f" is   *)
(* the integer number of hundredths it shows.                              *)
(***************************************************************************)
EXTENDS Integers, Sequences, FiniteSets, TLC

VARIABLES
    cache,           \* the memo of load_model_and_data: None or Some(result)
    storageReads,    \* how often joblib.load has read the artifact
    loadFailedEver,  \* some pass got the failure pair from the load
    shownBefore,     \* some earlier pass rendered a price box
    widgets,         \* the widget values of the session being served
    pass             \* what the last pass of main() did

vars == <<cache, storageReads, loadFailedEver, shownBefore, widgets, pass>>

-----------------------------------------------------------------------------
(* Bounds of the model *)

\* Passes stop being taken once storage has been read this often.
MaxReads == 3

\* Thousandths per unit in the fixed-point representation of a float.
FxScale == 1000

-----------------------------------------------------------------------------
(* Constants of the program *)

None == <<>>
Some(x) == <<x>>

\* app.py 47-51
Locations ==
    << "Whitefield", "Electronic City", "Kanakpura Road", "Thanisandra",
       "Yelahanka", "Uttarahalli", "Hebbal", "Marathahalli",
       "Raja Rajeshwari Nagar", "Bannerghatta Road", "Hennur Road",
       "7th Phase JP Nagar", "Haralur Road", "Electronic City Phase II" >>

LocationSet == { Locations[i] : i \in 1..Len(Locations) }

\* number_input bounds and defaults, app.py 102-129
MinSqft == 100
MaxSqft == 2200
DefaultSqft == 1000
MinBhk == 1
MaxBhk == 10
DefaultBhk == 2
MinBath == 1
MaxBath == 10
DefaultBath == 2

\* thresholds of the two advisory checks, app.py 134 and 137
BathSlack == 2
MinAreaPerBhk == 200

\* rupees per lakh, app.py 162
RupeesPerLakh == 100000

\* price * 0.1 is price / 10, app.py 149
LakhsPerMillion == 10

SqftDomain == MinSqft..MaxSqft

\* A bedroom field that accepts zero.
BhkDomainFromZero == 0..MaxBhk

BhkDomain == MinBhk..MaxBhk
BathDomain == MinBath..MaxBath

\* The values the user enters in the model of the whole page: the ends of
\* each range, the default, and both sides of the two warning thresholds.
SqftSamples == {v \in SqftDomain : v \in {MinSqft, 199, 200, DefaultSqft, MaxSqft}}
BhkSamples == {v \in BhkDomain : v <= MinBhk + 1 \/ v = MaxBhk}
BathSamples == {v \in BathDomain : v <= MinBath + 3 \/ v = MaxBath}

\* What the artifact on disk turns out to be when joblib.load reads it.
Artifacts == {"valid", "broken"}

\* What model.predict does with the one-row frame: it raises, or it returns
\* an array of floats (thousandths).  75.3 and 85.0 are the spec's examples.
ModelOutcomes ==
    { [raises |-> TRUE,  y |-> <<>>],
      [raises |-> FALSE, y |-> <<75300>>],
      [raises |-> FALSE, y |-> <<85000>>],
      [raises |-> FALSE, y |-> <<4567, 99999>>] }

-----------------------------------------------------------------------------
(* Arithmetic and formatting *)

\* float(n) of an int
ToFloat(n) == n * FxScale

\* a / b rounded to the nearest integer, ties to even (a >= 0, b > 0): the
\* rounding of Python's ":.2f" applied to the quotient.
RoundDiv(a, b) ==
    LET q == a \div b
        r == a % b
    IN  IF 2 * r < b THEN q
        ELSE IF 2 * r > b THEN q + 1
        ELSE IF q % 2 = 0 THEN q ELSE q + 1

\* f"{n/d:.2f}": the hundredths shown for the value n/d
Fmt2(n, d) == RoundDiv(100 * n, d)

\* true division n/d compared with an integer k: n/d < k
DivLess(n, d, k) == n < k * d

-----------------------------------------------------------------------------
(* load_model_and_data and its st.cache_data memo *)

\* The body of load_model_and_data (app.py 43-55): joblib.load reads the
\* artifact; any exception is shown with st.error and turned into
\* (None, None).
LoadBody(art) ==
    IF art = "valid"
    THEN [model |-> Some("pipeline"), locations |-> Some(Locations),
          msgs |-> <<>>]
    ELSE [model |-> None, locations |-> None,
          msgs |-> <<"error:loading">>]

\* Object identities of a returned pair: the object the body built, and a
\* copy made for one caller.
BuiltObject == "built"
FreshCopy == "copy"

\* load_model_and_data without the memo: the body runs on every call.
load_model_and_data_uncached(c, reads, art) ==
    LET r == LoadBody(art)
    IN  [model |-> r.model, locations |-> r.locations, msgs |-> r.msgs,
         obj |-> BuiltObject, hit |-> FALSE,
         cache |-> Some(r), reads |-> reads + 1]

\* @st.cache_data (app.py 41).  The function takes no arguments, so the memo
\* has one entry.  On a miss the body runs, its return value and the
\* elements it showed are stored, and the value it built is returned.  On a
\* hit the body does not run: the stored elements are shown again and the
\* caller gets its own copy of the stored value.  The memo holds whatever the
\* body returned, the failure pair (None, None) included.
load_model_and_data(c, reads, art) ==
    IF c = None
    THEN LET r == LoadBody(art)
         IN  [model |-> r.model, locations |-> r.locations, msgs |-> r.msgs,
              obj |-> BuiltObject, hit |-> FALSE,
              cache |-> Some(r), reads |-> reads + 1]
    ELSE [model |-> c[1].model, locations |-> c[1].locations,
          msgs |-> c[1].msgs,
          obj |-> FreshCopy, hit |-> TRUE,
          cache |-> c, reads |-> reads]

-----------------------------------------------------------------------------
(* predict_price, app.py 57-71 *)

\* The one-row frame built from the four inputs, app.py 60-65
InputData(location, sqft, bath, bhk) ==
    [location |-> location, total_sqft |-> ToFloat(sqft),
     bath |-> ToFloat(bath), bhk |-> ToFloat(bhk)]

\* predict_price taking the last output instead of the first.
predict_price_last(location, sqft, bath, bhk, model, out) ==
    LET frame == InputData(location, sqft, bath, bhk)
    IN  IF model = None \/ out.raises \/ out.y = <<>>
        THEN [ret |-> None, msgs |-> <<"error:prediction">>, frames |-> <<>>]
        ELSE [ret |-> Some(out.y[Len(out.y)]), msgs |-> <<>>,
              frames |-> <<frame>>]

\* model.predict(input_data) and prediction[0] raise when the handle is None,
\* when the model raises, or when the output is empty; the except clause
\* shows the error and returns None.  Otherwise float(prediction[0]).
predict_price(location, sqft, bath, bhk, model, out) ==
    LET frame == InputData(location, sqft, bath, bhk)
    IN  IF model = None
        THEN [ret |-> None, msgs |-> <<"error:prediction">>, frames |-> <<>>]
        ELSE IF out.raises \/ out.y = <<>>
        THEN [ret |-> None, msgs |-> <<"error:prediction">>,
              frames |-> <<frame>>]
        ELSE [ret |-> Some(out.y[1]), msgs |-> <<>>, frames |-> <<frame>>]

-----------------------------------------------------------------------------
(* main, app.py 73-174 *)

\* The check of line 77 left out.
LoadFailedIgnored(model, locations) == FALSE

\* app.py 77
LoadFailed(model, locations) == model = None \/ locations = None

\* The bathroom check off by one.
BathWarningGeq(bath, bhk) == bath >= bhk + BathSlack

\* app.py 134
BathWarning(bath, bhk) == bath > bhk + BathSlack

\* The area check with <= for <.
AreaWarningLeq(total_sqft, bhk) == total_sqft <= MinAreaPerBhk * bhk

\* app.py 137
AreaWarning(total_sqft, bhk) == DivLess(total_sqft, bhk, MinAreaPerBhk)

\* The warnings of lines 134-138, in the order they are shown
Warnings(w) ==
    (IF BathWarning(w.bath, w.bhk) THEN <<"warning:bath">> ELSE <<>>)
    \o (IF AreaWarning(w.total_sqft, w.bhk) THEN <<"warning:area">> ELSE <<>>)

\* The price box of lines 145-151: the two amounts it shows, in hundredths
PriceBox(price) ==
    [lakhs |-> Fmt2(price, FxScale),
     million |-> Fmt2(price, FxScale * LakhsPerMillion)]

\* The first tile without the lakh-to-rupee factor.
MetricsNoFactor(price, w) ==
    << Fmt2(price, FxScale * w.total_sqft),
       Fmt2(price, FxScale * w.bhk),
       Fmt2(w.total_sqft, w.bhk) >>

\* The three metric tiles of lines 162, 164, 166, in hundredths
Metrics(price, w) ==
    << Fmt2(price * (RupeesPerLakh \div FxScale), w.total_sqft),
       Fmt2(price, FxScale * w.bhk),
       Fmt2(w.total_sqft, w.bhk) >>

\* The model's answer in a pass that does not ask it
NoPress == [raises |-> FALSE, y |-> <<>>]

\* The record of a pass of main() that has not happened
NoPass ==
    [ran |-> FALSE, newSession |-> FALSE, pressed |-> FALSE,
     model |-> None, locations |-> None, obj |-> BuiltObject, hit |-> FALSE,
     formRendered |-> FALSE, events |-> <<>>, calls |-> <<>>, frames |-> <<>>,
     divisors |-> <<>>, priceBound |-> FALSE, price |-> None, box |-> None,
     metrics |-> <<>>, raised |-> None, completed |-> FALSE,
     out |-> NoPress]

\* A press on which a warning stops the pass before the prediction.
ButtonBlockBlocking(w, pressed, model, out) ==
    IF ~pressed \/ Warnings(w) # <<>>
    THEN [events |-> IF pressed THEN Warnings(w) ELSE <<>>,
          calls |-> <<>>, frames |-> <<>>, divisors |-> <<>>,
          priceBound |-> FALSE, price |-> None, box |-> None]
    ELSE LET p == predict_price(w.location, w.total_sqft, w.bath, w.bhk,
                                model, out)
         IN  [events |-> <<"call:predict_price">> \o p.msgs
                         \o (IF p.ret # None THEN <<"price_box">> ELSE <<>>),
              calls |-> << <<w.location, w.total_sqft, w.bath, w.bhk>> >>,
              frames |-> p.frames,
              divisors |-> <<w.bhk>>,
              priceBound |-> TRUE,
              price |-> p.ret,
              box |-> IF p.ret # None THEN Some(PriceBox(p.ret[1])) ELSE None]

\* Lines 131-151: the trigger and what a press does.  The local name price
\* is bound only when the button was pressed.
ButtonBlock(w, pressed, model, out) ==
    IF ~pressed
    THEN [events |-> <<>>, calls |-> <<>>, frames |-> <<>>, divisors |-> <<>>,
          priceBound |-> FALSE, price |-> None, box |-> None]
    ELSE LET p == predict_price(w.location, w.total_sqft, w.bath, w.bhk,
                                model, out)
         IN  [events |-> Warnings(w) \o <<"call:predict_price">> \o p.msgs
                         \o (IF p.ret # None THEN <<"price_box">> ELSE <<>>),
              calls |-> << <<w.location, w.total_sqft, w.bath, w.bhk>> >>,
              frames |-> p.frames,
              divisors |-> <<w.bhk>>,
              priceBound |-> TRUE,
              price |-> p.ret,
              box |-> IF p.ret # None THEN Some(PriceBox(p.ret[1])) ELSE None]

\* The tiles rendered for any bound price, a failed one shown as zero.
MetricsBlockAlways(w, b) ==
    IF ~b.priceBound
    THEN [events |-> <<>>, metrics |-> <<>>, divisors |-> <<>>, raised |-> None]
    ELSE [events |-> <<"metric:sqft", "metric:bhk", "metric:area">>,
          metrics |-> Metrics(IF b.price = None THEN 0 ELSE b.price[1], w),
          divisors |-> <<w.bhk, w.bhk>>, raised |-> None]

\* Lines 160-166: 'price' in locals() asks whether the name is bound, not
\* whether it holds a number.  With price bound to None the first tile's
\* f-string evaluates None * 100000 and raises TypeError before st.metric
\* is called; nothing catches it, so main() ends there.
MetricsBlock(w, b) ==
    IF ~b.priceBound
    THEN [events |-> <<>>, metrics |-> <<>>, divisors |-> <<>>, raised |-> None]
    ELSE IF b.price = None
    THEN [events |-> <<>>, metrics |-> <<>>, divisors |-> <<>>,
          raised |-> Some("TypeError")]
    ELSE [events |-> <<"metric:sqft", "metric:bhk", "metric:area">>,
          metrics |-> Metrics(b.price[1], w),
          divisors |-> <<w.bhk, w.bhk>>, raised |-> None]

\* One pass of main(): the new memo, the new read count and the record of
\* the pass.
main(c, reads, w, pressed, art, out, new) ==
    LET ld == load_model_and_data(c, reads, art)
        base == [NoPass EXCEPT !.ran = TRUE, !.newSession = new, !.out = out,
                               !.model = ld.model, !.locations = ld.locations,
                               !.obj = ld.obj, !.hit = ld.hit]
    IN  IF LoadFailed(ld.model, ld.locations)
        THEN [cache |-> ld.cache, reads |-> ld.reads,
              pass |-> [base EXCEPT !.events = ld.msgs \o <<"error:failed_to_load">>,
                                    !.completed = TRUE]]
        ELSE LET b == ButtonBlock(w, pressed, ld.model, out)
                 m == MetricsBlock(w, b)
             IN  [cache |-> ld.cache, reads |-> ld.reads,
                  pass |-> [base EXCEPT
                      !.pressed = pressed,
                      !.formRendered = TRUE,
                      !.events = ld.msgs \o <<"form">> \o b.events
                                 \o <<"insights">> \o m.events
                                 \o (IF m.raised = None THEN <<"footer">> ELSE <<>>),
                      !.calls = b.calls,
                      !.frames = b.frames,
                      !.divisors = b.divisors \o m.divisors,
                      !.priceBound = b.priceBound,
                      !.price = b.price,
                      !.box = b.box,
                      !.metrics = m.metrics,
                      !.raised = m.raised,
                      !.completed = (m.raised = None)]]

-----------------------------------------------------------------------------
(* The page served by one process *)

\* The widget values of a session that has just opened the page
DefaultWidgets ==
    [location |-> Locations[1], total_sqft |-> DefaultSqft,
     bhk |-> DefaultBhk, bath |-> DefaultBath]

\* The process has started and no one has opened the page.
Init ==
    /\ cache = None
    /\ storageReads = 0
    /\ loadFailedEver = FALSE
    /\ shownBefore = FALSE
    /\ widgets = DefaultWidgets
    /\ pass = NoPass

\* The runtime executes main() for the session with widget values w.
RunMain(w, pressed, out, new) ==
    /\ storageReads < MaxReads
    /\ \E art \in (IF cache = None THEN Artifacts ELSE {"valid"}) :
          \E r \in {main(cache, storageReads, w, pressed, art, out, new)} :
              /\ cache' = r.cache
              /\ storageReads' = r.reads
              /\ loadFailedEver' = (loadFailedEver \/ r.pass.model = None)
              /\ shownBefore' = (shownBefore \/ pass.box # None)
              /\ widgets' = w
              /\ pass' = r.pass

\* A browser opens the page: a new session with the default widget values.
NewSession == RunMain(DefaultWidgets, FALSE, NoPress, TRUE)

\* The user reruns the page without touching a widget.
Rerun == pass.ran /\ RunMain(widgets, FALSE, NoPress, FALSE)

\* The user picks another location in the select box.
SetLocation ==
    /\ pass.formRendered
    /\ \E l \in LocationSet \ {widgets.location} :
          RunMain([widgets EXCEPT !.location = l], FALSE, NoPress, FALSE)

\* The user enters another area.
SetTotalSqft ==
    /\ pass.formRendered
    /\ \E v \in SqftSamples \ {widgets.total_sqft} :
          RunMain([widgets EXCEPT !.total_sqft = v], FALSE, NoPress, FALSE)

\* The user enters another number of bedrooms.
SetBhk ==
    /\ pass.formRendered
    /\ \E v \in BhkSamples \ {widgets.bhk} :
          RunMain([widgets EXCEPT !.bhk = v], FALSE, NoPress, FALSE)

\* The user enters another number of bathrooms.
SetBath ==
    /\ pass.formRendered
    /\ \E v \in BathSamples \ {widgets.bath} :
          RunMain([widgets EXCEPT !.bath = v], FALSE, NoPress, FALSE)

\* The user presses "Calculate Price"; the model answers with out.
PressButton ==
    /\ pass.formRendered
    /\ \E out \in ModelOutcomes : RunMain(widgets, TRUE, out, FALSE)

Next ==
    \/ NewSession
    \/ Rerun
    \/ SetLocation
    \/ SetTotalSqft
    \/ SetBhk
    \/ SetBath
    \/ PressButton

Spec == Init /\ [][Next]_vars

-----------------------------------------------------------------------------
(* The form with every declared value of the three numeric inputs *)

\* Widget values with the full range of bedrooms and, with it, either the
\* full range of areas or the full range of bathrooms.
InputGrid ==
    { [location |-> Locations[1], total_sqft |-> s, bhk |-> k, bath |-> b] :
          s \in SqftDomain, k \in BhkDomain, b \in {DefaultBath} }
    \cup
    { [location |-> Locations[1], total_sqft |-> s, bhk |-> k, bath |-> b] :
          s \in SqftSamples, k \in BhkDomain, b \in BathDomain }

\* The model is loaded and the user has just entered the values w.
InitInputs ==
    /\ cache = Some(LoadBody("valid"))
    /\ storageReads = 1
    /\ loadFailedEver = FALSE
    /\ shownBefore = FALSE
    /\ widgets \in InputGrid
    /\ pass = main(cache, storageReads, widgets, FALSE, "valid", NoPress, FALSE).pass

NextInputs ==
    \/ PressButton
    \/ Rerun

SpecInputs == InitInputs /\ [][NextInputs]_vars

-----------------------------------------------------------------------------
(* Properties *)

Contains(seq, x) == \E i \in DOMAIN seq : seq[i] = x

\* The last pass was a press of the button with the model loaded.
PressedPass == pass.ran /\ pass.formRendered /\ pass.pressed

\* The last pass was a press in which the inference call raised.
InferenceFailed == PressedPass /\ pass.frames # <<>> /\ pass.out.raises

\* Anything of a result is on the page: the price box or a metric tile.
ResultShown ==
    \/ pass.box # None
    \/ pass.metrics # <<>>
    \/ \E e \in {"price_box", "metric:sqft", "metric:bhk", "metric:area"} :
          Contains(pass.events, e)

\* C1: a press in which the inference call raises runs to the end of main()
\* without an uncaught exception, shows the error in place of a result,
\* renders neither the price box nor a tile, and leaves the form usable.
C1_InferenceFailureNonFatal ==
    InferenceFailed =>
        /\ pass.completed
        /\ pass.raised = None
        /\ Contains(pass.events, "error:prediction")
        /\ ~ResultShown
        /\ ENABLED PressButton

C3_LoadFailureBlocks ==
    (loadFailedEver \/ (pass.ran /\ pass.model = None)) =>
        /\ pass.model = None /\ pass.locations = None
        /\ ~pass.formRendered
        /\ pass.calls = <<>> /\ pass.frames = <<>>
        /\ pass.events = <<"error:loading", "error:failed_to_load">>
        /\ pass.completed
        /\ ~ENABLED PressButton

\* A pass after the failing one, served the memoized failure.
C3_Witness == loadFailedEver /\ pass.hit /\ pass.model = None

\* C4: predict_price returns None when the model raises and the first output
\* as a float when it returns, and in both cases control comes back to
\* main(), which goes on to the insights section.
C4_PredictTotal ==
    (pass.ran /\ pass.calls # <<>>) =>
        /\ Contains(pass.events, "insights")
        /\ pass.out.raises =>
              (pass.price = None /\ Contains(pass.events, "error:prediction"))
        /\ ~pass.out.raises =>
              (pass.price = Some(Head(pass.out.y)) /\ pass.price # None
               /\ ~Contains(pass.events, "error:prediction"))

\* The model returned two outputs and the first is the price.
C4_Witness ==
    /\ PressedPass /\ Len(pass.out.y) = 2 /\ pass.price = Some(4567)

\* The position of the call of predict_price among the events of the pass.
CallIndex == CHOOSE i \in DOMAIN pass.events : pass.events[i] = "call:predict_price"

\* C5: a press with the model loaded calls predict_price exactly once, with
\* the four widget values, whatever warnings were shown, and the warnings
\* come before the call.
C5_WarningsNeverBlock ==
    PressedPass =>
        /\ pass.calls = << <<widgets.location, widgets.total_sqft,
                             widgets.bath, widgets.bhk>> >>
        /\ Cardinality({i \in DOMAIN pass.events :
                           pass.events[i] = "call:predict_price"}) = 1
        /\ \A i \in DOMAIN pass.events :
              pass.events[i] \in {"warning:bath", "warning:area"} => i < CallIndex

\* Both warnings were shown and the prediction was still made.
C5_Witness ==
    /\ PressedPass
    /\ Contains(pass.events, "warning:bath")
    /\ Contains(pass.events, "warning:area")
    /\ pass.box # None

\* C6: a press shows the bathroom warning iff bath > bhk + 2.
C6_BathWarningIff ==
    PressedPass =>
        (Contains(pass.events, "warning:bath") <=> widgets.bath > widgets.bhk + 2)

\* The warning at the smallest excess, and its absence just below.
C6_Witness ==
    /\ PressedPass
    /\ widgets.bath = widgets.bhk + 3
    /\ Contains(pass.events, "warning:bath")

\* C7: a press shows the area warning iff total_sqft < 200 * bhk, with or
\* without the bathroom warning.
C7_AreaWarningIff ==
    PressedPass =>
        (Contains(pass.events, "warning:area")
            <=> widgets.total_sqft < 200 * widgets.bhk)

\* The area warning one square foot below the threshold, next to the
\* bathroom warning.
C7_Witness ==
    /\ PressedPass
    /\ widgets.total_sqft = 200 * widgets.bhk - 1
    /\ Contains(pass.events, "warning:area")
    /\ Contains(pass.events, "warning:bath")

Nearest(m, n, d) ==
    /\ 2 * (m * d - 100 * n) <= d
    /\ 2 * (100 * n - m * d) <= d

\* C9: for a successful prediction the three tiles show
\* price*100000/total_sqft, price/bhk and total_sqft/bhk and the box shows
\* price and price*0.1, each to two decimals; with the spec's two examples.
C9_RenderedValues ==
    (PressedPass /\ pass.price # None) =>
        LET p == pass.price[1]
        IN  /\ pass.box # None /\ Len(pass.metrics) = 3
            /\ Nearest(pass.metrics[1], p * 100, widgets.total_sqft)
            /\ Nearest(pass.metrics[2], p, 1000 * widgets.bhk)
            /\ Nearest(pass.metrics[3], widgets.total_sqft, widgets.bhk)
            /\ Nearest(pass.box[1].lakhs, p, 1000)
            /\ Nearest(pass.box[1].million, p, 10000)
            /\ (p = 85000 /\ widgets.total_sqft = 1000 /\ widgets.bhk = 2)
                  => pass.metrics = <<850000, 4250, 50000>>
            /\ p = 75300 => pass.box = Some([lakhs |-> 7530, million |-> 753])

\* The first example of the spec was rendered.
C9_Witness ==
    /\ PressedPass /\ pass.price = Some(85000)
    /\ widgets.total_sqft = 1000 /\ widgets.bhk = 2
    /\ Len(pass.metrics) = 3

\* C10: a pass without a press makes no inference call and shows no result,
\* whatever earlier passes showed; and tiles appear only next to a price box
\* of the same pass.
C10_NoPersistence ==
    /\ (pass.ran /\ ~pass.pressed) =>
          (pass.calls = <<>> /\ pass.frames = <<>> /\ ~pass.priceBound
           /\ ~ResultShown)
    /\ (pass.metrics # <<>> \/ Contains(pass.events, "metric:sqft"))
          => (pass.box # None /\ Contains(pass.events, "price_box"))

\* A pass without a press, after a pass that showed a price box.
C10_Witness ==
    /\ pass.ran /\ pass.formRendered /\ ~pass.pressed
    /\ shownBefore /\ ~ResultShown

====
